---------------------------- MODULE Spec2Model ----------------------------
(***************************************************************************)
(* Model of buildbot_nix/models.py: the pydantic configuration schema of   *)
(* buildbot-nix (CachixConfig, GiteaConfig, GitHub*Config, Interpolate,    *)
(* PostBuildStep, BuildbotNixConfig), its lazy secret accessors and the    *)
(* translation of a post-build step into a buildbot ShellCommand.          *)
(*                                                                         *)
(* Values are tagged records so that values of different Python / JSON     *)
(* types can be told apart: [t |-> "str", v |-> "x"], [t |-> "null"], ...  *)
(* A document object is a function from its keys to values; a key that the *)
(* document omits is simply not in the function's domain.                  *)
(***************************************************************************)
EXTENDS Naturals, Sequences, FiniteSets, TLC

VARIABLES
    doc,            \* the raw input document handed to model_validate
    cfg,            \* the object model_validate produced (NoConfig: none yet)
    files,          \* the secret files on disk: path -> characters, or NoFile
    reads,          \* number of read_secret_file calls made so far
    accesses,       \* number of secret accessor calls that got past the None test
    last,           \* what the last operation did and returned or raised
    unionTieBreak   \* tie-break of the installed pydantic's smart-mode union

vars == <<doc, cfg, files, reads, accesses, last, unionTieBreak>>

---------------------------------------------------------------------------
(* Wire (JSON) values and Python values.                                   *)

Null == [t |-> "null"]
Str(s) == [t |-> "str", v |-> s]
Int(i) == [t |-> "int", v |-> i]
Bool(b) == [t |-> "bool", v |-> b]
Obj(f) == [t |-> "obj", v |-> f]
List(s) == [t |-> "list", v |-> s]

None == [t |-> "NoneType"]
Path(p) == [t |-> "Path", v |-> p]
NoConfig == [t |-> "NoConfig"]
NoDoc == [t |-> "NoDoc"]

Without(f, keys) == [k \in DOMAIN f \ keys |-> f[k]]

(* Validation is modelled by two operators per type T: TErrors(x), the    *)
(* locations of the ValidationError that validating x as T raises (empty: *)
(* x is valid), and TValue(x), the value a valid x is validated to.       *)
At(k, errs) == {<<k>> \o e : e \in errs}

(* The value a document gives a key; Absent when it omits the key.  No     *)
(* validator accepts Absent: a field without a default is required, be it  *)
(* `x: T` or `x: T | None`.                                                *)
Absent == [t |-> "absent"]
Get(o, k) == IF k \in DOMAIN o THEN o[k] ELSE Absent

(* A field declared with Field(default=d).                                 *)
DefaultErrors(o, k, errs) == IF k \in DOMAIN o THEN At(k, errs) ELSE {}
DefaultValue(o, k, v, d) == IF k \in DOMAIN o THEN v ELSE d

StrErrors(x) == IF x.t = "str" THEN {} ELSE {<<>>}
StrValue(x) == Str(x.v)
IntErrors(x) == IF x.t = "int" THEN {} ELSE {<<>>}
IntValue(x) == Int(x.v)
BoolErrors(x) == IF x.t = "bool" THEN {} ELSE {<<>>}
BoolValue(x) == Bool(x.v)
PathErrors(x) == IF x.t = "str" THEN {} ELSE {<<>>}
PathValue(x) == Path(x.v)
StrOrNoneErrors(x) == IF x.t = "null" THEN {} ELSE StrErrors(x)
StrOrNoneValue(x) == IF x.t = "null" THEN None ELSE StrValue(x)
IntOrNoneErrors(x) == IF x.t = "null" THEN {} ELSE IntErrors(x)
IntOrNoneValue(x) == IF x.t = "null" THEN None ELSE IntValue(x)
PathOrNoneErrors(x) == IF x.t = "null" THEN {} ELSE PathErrors(x)
PathOrNoneValue(x) == IF x.t = "null" THEN None ELSE PathValue(x)

(* list[str]                                                               *)
StrListErrors(x) ==
    IF x.t # "list" THEN {<<>>}
    ELSE UNION {At(ToString(i), StrErrors(x.v[i])) : i \in 1..Len(x.v)}
StrListValue(x) == [i \in 1..Len(x.v) |-> StrValue(x.v[i])]

AuthBackendConfig == {"github", "gitea", "none"}

AuthBackendConfigErrors(x) ==
    IF x.t = "str" /\ x.v \in AuthBackendConfig THEN {} ELSE {<<>>}
AuthBackendConfigValue(x) == Str(x.v)

---------------------------------------------------------------------------
(* The models.                                                             *)

CachixConfigErrors(x) ==
    IF x.t # "obj" THEN {<<>>}
    ELSE At("name", StrErrors(Get(x.v, "name")))
         \cup At("signing_key_file", PathOrNoneErrors(Get(x.v, "signing_key_file")))
         \cup At("auth_token_file", PathOrNoneErrors(Get(x.v, "auth_token_file")))

CachixConfigValue(x) ==
    [t |-> "CachixConfig",
     name |-> StrValue(x.v.name),
     signing_key_file |-> PathOrNoneValue(x.v.signing_key_file),
     auth_token_file |-> PathOrNoneValue(x.v.auth_token_file)]

GiteaConfigErrors(x) ==
    IF x.t # "obj" THEN {<<>>}
    ELSE At("instance_url", StrErrors(Get(x.v, "instance_url")))
         \cup At("topic", StrOrNoneErrors(Get(x.v, "topic")))
         \cup DefaultErrors(x.v, "token_file", PathErrors(Get(x.v, "token_file")))
         \cup DefaultErrors(x.v, "webhook_secret_file",
                            PathErrors(Get(x.v, "webhook_secret_file")))
         \cup DefaultErrors(x.v, "project_cache_file",
                            PathErrors(Get(x.v, "project_cache_file")))
         \cup At("oauth_id", StrOrNoneErrors(Get(x.v, "oauth_id")))
         \cup At("oauth_secret_file", PathOrNoneErrors(Get(x.v, "oauth_secret_file")))

GiteaConfigValue(x) ==
    [t |-> "GiteaConfig",
     instance_url |-> StrValue(x.v.instance_url),
     topic |-> StrOrNoneValue(x.v.topic),
     token_file |-> DefaultValue(x.v, "token_file", PathValue(Get(x.v, "token_file")),
                                 Path("gitea-token")),
     webhook_secret_file |->
         DefaultValue(x.v, "webhook_secret_file",
                      PathValue(Get(x.v, "webhook_secret_file")),
                      Path("gitea-webhook-secret")),
     project_cache_file |->
         DefaultValue(x.v, "project_cache_file",
                      PathValue(Get(x.v, "project_cache_file")),
                      Path("gitea-project-cache.json")),
     oauth_id |-> StrOrNoneValue(x.v.oauth_id),
     oauth_secret_file |-> PathOrNoneValue(x.v.oauth_secret_file)]

GitHubLegacyConfigErrors(x) ==
    IF x.t # "obj" THEN {<<>>}
    ELSE At("token_file", PathErrors(Get(x.v, "token_file")))

GitHubLegacyConfigValue(x) ==
    [t |-> "GitHubLegacyConfig", token_file |-> PathValue(x.v.token_file)]

GitHubAppConfigErrors(x) ==
    IF x.t # "obj" THEN {<<>>}
    ELSE At("id", IntErrors(Get(x.v, "id")))
         \cup At("secret_key_file", PathErrors(Get(x.v, "secret_key_file")))
         \cup DefaultErrors(x.v, "installation_token_map_file",
                            PathErrors(Get(x.v, "installation_token_map_file")))
         \cup DefaultErrors(x.v, "project_id_map_file",
                            PathErrors(Get(x.v, "project_id_map_file")))
         \cup DefaultErrors(x.v, "jwt_token_map", PathErrors(Get(x.v, "jwt_token_map")))

GitHubAppConfigValue(x) ==
    [t |-> "GitHubAppConfig",
     id |-> IntValue(x.v.id),
     secret_key_file |-> PathValue(x.v.secret_key_file),
     installation_token_map_file |->
         DefaultValue(x.v, "installation_token_map_file",
                      PathValue(Get(x.v, "installation_token_map_file")),
                      Path("github-app-installation-token-map.json")),
     project_id_map_file |->
         DefaultValue(x.v, "project_id_map_file",
                      PathValue(Get(x.v, "project_id_map_file")),
                      Path("github-app-project-id-map-name.json")),
     jwt_token_map |->
         DefaultValue(x.v, "jwt_token_map", PathValue(Get(x.v, "jwt_token_map")),
                      Path("github-app-jwt-token"))]

GitHubLegacyFields == {"token_file"}
GitHubAppFields == {"id", "secret_key_file", "installation_token_map_file",
                    "project_id_map_file", "jwt_token_map"}

(* How many of a model's fields the input sets (the model's fields_set).   *)
FieldsSet(x, fields) == Cardinality(DOMAIN x.v \cap fields)

(* auth_type: GitHubLegacyConfig | GitHubAppConfig, pydantic's smart-mode   *)
(* union.  Both members are validated; a model ignores extra keys, so an   *)
(* input may validate as both.  The member is then picked by the library's *)
(* tie-break: the leftmost success, or the success with the most fields    *)
(* set (ties: the leftmost).  No member valid: the errors of all members.  *)
(* Mutant: only the first member of the union is tried.                    *)
GitHubAuthTypeErrorsFirstOnly(x) == At("GitHubLegacyConfig", GitHubLegacyConfigErrors(x))

GitHubAuthTypeErrors(x) ==
    IF GitHubLegacyConfigErrors(x) = {} \/ GitHubAppConfigErrors(x) = {} THEN {}
    ELSE At("GitHubLegacyConfig", GitHubLegacyConfigErrors(x))
         \cup At("GitHubAppConfig", GitHubAppConfigErrors(x))

GitHubAuthTypeValue(x) ==
    CASE GitHubAppConfigErrors(x) # {} -> GitHubLegacyConfigValue(x)
      [] GitHubLegacyConfigErrors(x) # {} -> GitHubAppConfigValue(x)
      [] OTHER ->
            IF unionTieBreak = "fields_set"
               /\ FieldsSet(x, GitHubAppFields) > FieldsSet(x, GitHubLegacyFields)
            THEN GitHubAppConfigValue(x)
            ELSE GitHubLegacyConfigValue(x)

GitHubConfigErrors(x) ==
    IF x.t # "obj" THEN {<<>>}
    ELSE At("auth_type", GitHubAuthTypeErrors(Get(x.v, "auth_type")))
         \cup At("topic", StrOrNoneErrors(Get(x.v, "topic")))
         \cup DefaultErrors(x.v, "project_cache_file",
                            PathErrors(Get(x.v, "project_cache_file")))
         \cup DefaultErrors(x.v, "webhook_secret_file",
                            PathErrors(Get(x.v, "webhook_secret_file")))
         \cup At("oauth_id", StrOrNoneErrors(Get(x.v, "oauth_id")))
         \cup At("oauth_secret_file", PathOrNoneErrors(Get(x.v, "oauth_secret_file")))

GitHubConfigValue(x) ==
    [t |-> "GitHubConfig",
     auth_type |-> GitHubAuthTypeValue(x.v.auth_type),
     topic |-> StrOrNoneValue(x.v.topic),
     project_cache_file |->
         DefaultValue(x.v, "project_cache_file",
                      PathValue(Get(x.v, "project_cache_file")),
                      Path("github-project-cache-v1.json")),
     webhook_secret_file |->
         DefaultValue(x.v, "webhook_secret_file",
                      PathValue(Get(x.v, "webhook_secret_file")),
                      Path("github-webhook-secret")),
     oauth_id |-> StrOrNoneValue(x.v.oauth_id),
     oauth_secret_file |-> PathOrNoneValue(x.v.oauth_secret_file)]

(* Interpolate: nix_type is read under its alias "_type" and, because of   *)
(* populate_by_name, under its own name when the alias is absent.          *)
InterpolateTypeKey(o) == IF "_type" \notin DOMAIN o /\ "nix_type" \in DOMAIN o
                         THEN "nix_type" ELSE "_type"

InterpolateErrors(x) ==
    IF x.t # "obj" THEN {<<>>}
    ELSE At(InterpolateTypeKey(x.v), StrErrors(Get(x.v, InterpolateTypeKey(x.v))))
         \cup At("value", StrErrors(Get(x.v, "value")))

InterpolateValue(x) ==
    [t |-> "Interpolate",
     nix_type |-> StrValue(x.v[InterpolateTypeKey(x.v)]),
     value |-> StrValue(x.v.value)]

(* Mutant: the dump ignores by_alias and always emits the field's name.    *)
InterpolateDumpByName(self, by_alias) ==
    Obj(("nix_type" :> self.nix_type) @@ ("value" :> self.value))

(* model_dump(by_alias=...) of an Interpolate.                              *)
InterpolateDump(self, by_alias) ==
    Obj(((IF by_alias THEN "_type" ELSE "nix_type") :> self.nix_type)
          @@ ("value" :> self.value))

(* str | Interpolate                                                       *)
StrOrInterpolateErrors(x) ==
    IF StrErrors(x) = {} \/ InterpolateErrors(x) = {} THEN {}
    ELSE At("str", StrErrors(x)) \cup At("Interpolate", InterpolateErrors(x))

StrOrInterpolateValue(x) ==
    IF StrErrors(x) = {} THEN StrValue(x) ELSE InterpolateValue(x)

(* environment: dict[str, str | Interpolate]                              *)
EnvironmentErrors(x) ==
    IF x.t # "obj" THEN {<<>>}
    ELSE UNION {At(k, StrOrInterpolateErrors(x.v[k])) : k \in DOMAIN x.v}
EnvironmentValue(x) == [k \in DOMAIN x.v |-> StrOrInterpolateValue(x.v[k])]

(* command: list[str | Interpolate]                                        *)
CommandErrors(x) ==
    IF x.t # "list" THEN {<<>>}
    ELSE UNION {At(ToString(i), StrOrInterpolateErrors(x.v[i])) : i \in 1..Len(x.v)}
CommandValue(x) == [i \in 1..Len(x.v) |-> StrOrInterpolateValue(x.v[i])]

PostBuildStepErrors(x) ==
    IF x.t # "obj" THEN {<<>>}
    ELSE At("name", StrErrors(Get(x.v, "name")))
         \cup At("environment", EnvironmentErrors(Get(x.v, "environment")))
         \cup At("command", CommandErrors(Get(x.v, "command")))

PostBuildStepValue(x) ==
    [t |-> "PostBuildStep",
     name |-> StrValue(x.v.name),
     environment |-> EnvironmentValue(x.v.environment),
     command |-> CommandValue(x.v.command)]

(* list[PostBuildStep]                                                     *)
PostBuildStepListErrors(x) ==
    IF x.t # "list" THEN {<<>>}
    ELSE UNION {At(ToString(i), PostBuildStepErrors(x.v[i])) : i \in 1..Len(x.v)}
PostBuildStepListValue(x) == [i \in 1..Len(x.v) |-> PostBuildStepValue(x.v[i])]

CachixOrNoneErrors(x) == IF x.t = "null" THEN {} ELSE CachixConfigErrors(x)
CachixOrNoneValue(x) == IF x.t = "null" THEN None ELSE CachixConfigValue(x)
GiteaOrNoneErrors(x) == IF x.t = "null" THEN {} ELSE GiteaConfigErrors(x)
GiteaOrNoneValue(x) == IF x.t = "null" THEN None ELSE GiteaConfigValue(x)
GitHubOrNoneErrors(x) == IF x.t = "null" THEN {} ELSE GitHubConfigErrors(x)
GitHubOrNoneValue(x) == IF x.t = "null" THEN None ELSE GitHubConfigValue(x)

BuildbotNixConfigErrors(x) ==
    IF x.t # "obj" THEN {<<>>}
    ELSE At("db_url", StrErrors(Get(x.v, "db_url")))
         \cup At("auth_backend", AuthBackendConfigErrors(Get(x.v, "auth_backend")))
         \cup At("build_retries", IntErrors(Get(x.v, "build_retries")))
         \cup At("cachix", CachixOrNoneErrors(Get(x.v, "cachix")))
         \cup At("gitea", GiteaOrNoneErrors(Get(x.v, "gitea")))
         \cup At("github", GitHubOrNoneErrors(Get(x.v, "github")))
         \cup At("admins", StrListErrors(Get(x.v, "admins")))
         \cup At("workers_file", PathErrors(Get(x.v, "workers_file")))
         \cup At("build_systems", StrListErrors(Get(x.v, "build_systems")))
         \cup At("eval_max_memory_size", IntErrors(Get(x.v, "eval_max_memory_size")))
         \cup At("eval_worker_count", IntOrNoneErrors(Get(x.v, "eval_worker_count")))
         \cup DefaultErrors(x.v, "nix_workers_secret_file",
                            PathErrors(Get(x.v, "nix_workers_secret_file")))
         \cup At("domain", StrErrors(Get(x.v, "domain")))
         \cup At("webhook_base_url", StrErrors(Get(x.v, "webhook_base_url")))
         \cup At("use_https", BoolErrors(Get(x.v, "use_https")))
         \cup At("outputs_path", PathOrNoneErrors(Get(x.v, "outputs_path")))
         \cup At("url", StrErrors(Get(x.v, "url")))
         \cup At("post_build_steps",
                 PostBuildStepListErrors(Get(x.v, "post_build_steps")))
         \cup At("job_report_limit", IntOrNoneErrors(Get(x.v, "job_report_limit")))

BuildbotNixConfigValue(x) ==
    [t |-> "BuildbotNixConfig",
     db_url |-> StrValue(x.v.db_url),
     auth_backend |-> AuthBackendConfigValue(x.v.auth_backend),
     build_retries |-> IntValue(x.v.build_retries),
     cachix |-> CachixOrNoneValue(x.v.cachix),
     gitea |-> GiteaOrNoneValue(x.v.gitea),
     github |-> GitHubOrNoneValue(x.v.github),
     admins |-> StrListValue(x.v.admins),
     workers_file |-> PathValue(x.v.workers_file),
     build_systems |-> StrListValue(x.v.build_systems),
     eval_max_memory_size |-> IntValue(x.v.eval_max_memory_size),
     eval_worker_count |-> IntOrNoneValue(x.v.eval_worker_count),
     nix_workers_secret_file |->
         DefaultValue(x.v, "nix_workers_secret_file",
                      PathValue(Get(x.v, "nix_workers_secret_file")),
                      Path("buildbot-nix-workers")),
     domain |-> StrValue(x.v.domain),
     webhook_base_url |-> StrValue(x.v.webhook_base_url),
     use_https |-> BoolValue(x.v.use_https),
     outputs_path |-> PathOrNoneValue(x.v.outputs_path),
     url |-> StrValue(x.v.url),
     post_build_steps |-> PostBuildStepListValue(x.v.post_build_steps),
     job_report_limit |-> IntOrNoneValue(x.v.job_report_limit)]

---------------------------------------------------------------------------
(* Secret files and the lazy accessors.                                    *)

NoFile == [exists |-> FALSE, content |-> <<>>]
File(c) == [exists |-> TRUE, content |-> c]

Whitespace == {" ", "\n", "\t"}

RECURSIVE LStrip(_)
LStrip(s) == IF s # <<>> /\ Head(s) \in Whitespace THEN LStrip(Tail(s)) ELSE s

RECURSIVE RStrip(_)
RStrip(s) ==
    IF s # <<>> /\ s[Len(s)] \in Whitespace THEN RStrip(SubSeq(s, 1, Len(s) - 1)) ELSE s

Strip(s) == RStrip(LStrip(s))

Raise(e) == [outcome |-> e, value |-> None, nreads |-> 0]
Return(v) == [outcome |-> "ok", value |-> v, nreads |-> 0]

(* read_secret_file of buildbot_nix/secrets.py: one read of the file as it  *)
(* is now; its trimmed text, or the I/O error of a file that is not there. *)
read_secret_file(path) ==
    IF path.v \in DOMAIN files /\ files[path.v].exists
    THEN [outcome |-> "ok", value |-> Str(Strip(files[path.v].content)), nreads |-> 1]
    ELSE [outcome |-> "OSError", value |-> None, nreads |-> 1]

(* Mutant: an unset reference yields an empty secret instead of raising.    *)
CachixConfig_signing_key_or_empty(self) ==
    IF self.signing_key_file = None THEN Return(Str(<<>>))
    ELSE read_secret_file(self.signing_key_file)

CachixConfig_signing_key(self) ==
    IF self.signing_key_file = None THEN Raise("InternalError")
    ELSE read_secret_file(self.signing_key_file)

CachixConfig_auth_token(self) ==
    IF self.auth_token_file = None THEN Raise("InternalError")
    ELSE read_secret_file(self.auth_token_file)

(* util.Secret(name): a handle; buildbot resolves it when the step runs.   *)
Secret(name) == [t |-> "Secret", secretvalue |-> name]

CachixConfig_environment(self) ==
    Return([CACHIX_SIGNING_KEY |-> Secret(self.signing_key_file),
            CACHIX_AUTH_TOKEN |-> Secret(self.auth_token_file)])

(* Mutant: the property keeps the secret it returned last (cached_property). *)
GiteaConfig_token_cached(self) ==
    IF last.op = "GiteaConfig.token" /\ last.outcome = "ok"
    THEN [outcome |-> "ok", value |-> last.value, nreads |-> 0]
    ELSE read_secret_file(self.token_file)

GiteaConfig_token(self) == read_secret_file(self.token_file)

GiteaConfig_webhook_secret(self) == read_secret_file(self.webhook_secret_file)

GiteaConfig_oauth_secret(self) ==
    IF self.oauth_secret_file = None THEN Raise("InternalError")
    ELSE read_secret_file(self.oauth_secret_file)

GitHubLegacyConfig_token(self) == read_secret_file(self.token_file)

GitHubAppConfig_secret_key(self) == read_secret_file(self.secret_key_file)

GitHubConfig_webhook_secret(self) == read_secret_file(self.webhook_secret_file)

GitHubConfig_oauth_secret(self) ==
    IF self.oauth_secret_file = None THEN Raise("InternalError")
    ELSE read_secret_file(self.oauth_secret_file)

BuildbotNixConfig_nix_workers_secret(self) ==
    read_secret_file(self.nix_workers_secret_file)

---------------------------------------------------------------------------
(* PostBuildStep.to_buildstep.                                             *)

(* util.Interpolate(fmtstring)                                             *)
UtilInterpolate(fmtstring) == [t |-> "util.Interpolate", fmtstring |-> fmtstring]

(* Mutant: the discriminator, not the expression, is interpolated.         *)
maybe_interpolate_type(value) ==
    IF value.t = "str" THEN value ELSE UtilInterpolate(value.nix_type)

maybe_interpolate(value) ==
    IF value.t = "str" THEN value ELSE UtilInterpolate(value.value)

(* steps.ShellCommand(name=, env=, command=).  The env comprehension hands  *)
(* maybe_interpolate the key k, a str.                                     *)
to_buildstep(self) ==
    Return([t |-> "ShellCommand",
            name |-> self.name,
            env |-> [k \in DOMAIN self.environment |-> maybe_interpolate(Str(k))],
            command |-> [i \in DOMAIN self.command |->
                           maybe_interpolate(self.command[i])]])

---------------------------------------------------------------------------
(* Bounds and the input documents.                                         *)

MaxReads == 2
MaxCmdLen == 2

With(f, k, v) == (k :> v) @@ f

TokPath == "/run/secrets/tok"
WorkersPath == "buildbot-nix-workers"
Paths == {TokPath, WorkersPath}
Contents == {<<"a", "\n">>, <<" ", "b">>}

InterpolateDoc(key, type, value) == Obj((key :> Str(type)) @@ ("value" :> Str(value)))

ValueDocs == {Str("echo"), Str("REV"),
              InterpolateDoc("_type", "Interpolate", "prop:revision"),
              InterpolateDoc("nix_type", "Interpolate", "prop:branch"),
              Obj("value" :> Str("prop:revision"))}

EnvKeys == {"REV", "OUT"}
EnvDocs == UNION {[ks -> ValueDocs] : ks \in SUBSET EnvKeys}
CommandDocs == UNION {[1..n -> ValueDocs] : n \in 0..MaxCmdLen}

PostBuildStepDoc(env, cmd) ==
    Obj([name |-> Str("notify"), environment |-> Obj(env), command |-> List(cmd)])

StepDocs == {PostBuildStepDoc(e, c) : e \in EnvDocs, c \in CommandDocs}

CachixDoc(skf, atf) ==
    Obj([name |-> Str("mycache"), signing_key_file |-> skf, auth_token_file |-> atf])

GiteaDoc(osf) ==
    Obj([instance_url |-> Str("https://gitea.example"), topic |-> Null,
         token_file |-> Str(TokPath), webhook_secret_file |-> Str(TokPath),
         oauth_id |-> Null, oauth_secret_file |-> osf])

GiteaDefaultsDoc ==
    Obj([instance_url |-> Str("https://gitea.example"), topic |-> Str("nix"),
         oauth_id |-> Str("id"), oauth_secret_file |-> Null])

AuthTypeFull ==
    [token_file |-> Str(TokPath), id |-> Int(1), secret_key_file |-> Str(TokPath)]

AuthTypeDocs ==
    {Obj(Without(AuthTypeFull, drop)) : drop \in SUBSET DOMAIN AuthTypeFull}

GitHubDoc(auth, osf) ==
    Obj([auth_type |-> auth, topic |-> Null, webhook_secret_file |-> Str(TokPath),
         oauth_id |-> Null, oauth_secret_file |-> osf])

LegacyDoc == Obj(Without(AuthTypeFull, {"id", "secret_key_file"}))
AppDoc == Obj(Without(AuthTypeFull, {"token_file"}))

ExampleStepDoc ==
    PostBuildStepDoc("REV" :> InterpolateDoc("_type", "Interpolate", "prop:revision"),
                     <<Str("echo"), InterpolateDoc("_type", "Interpolate", "prop:revision")>>)

(* A document with every field of BuildbotNixConfig but the defaulted      *)
(* nix_workers_secret_file; the optional blocks are null.                  *)
BaseDoc ==
    [db_url |-> Str("postgresql://"), auth_backend |-> Str("none"),
     build_retries |-> Int(1), cachix |-> Null, gitea |-> Null, github |-> Null,
     admins |-> List(<<Str("root")>>), workers_file |-> Str("workers.json"),
     build_systems |-> List(<<Str("x86_64-linux")>>),
     eval_max_memory_size |-> Int(2048), eval_worker_count |-> Null,
     domain |-> Str("ci.example"), webhook_base_url |-> Str("https://ci.example"),
     use_https |-> Bool(TRUE), outputs_path |-> Null, url |-> Str("https://ci.example"),
     post_build_steps |-> List(<<>>), job_report_limit |-> Null]

OptionalBlocks == {"cachix", "gitea", "github"}

DropSets == {{}} \cup {OptionalBlocks} \cup {{k} : k \in DOMAIN BaseDoc}

CachixDocs == {Null} \cup {CachixDoc(s, a) : s, a \in {Null, Str(TokPath)}}
GiteaDocs == {Null, GiteaDoc(Null), GiteaDefaultsDoc}
GitHubDocs == {Null} \cup {GitHubDoc(a, Null) : a \in AuthTypeDocs \cup {Str("token")}}

RootDocs ==
    {Obj(Without(With(With(With(With(BaseDoc, "cachix", c), "gitea", g), "github", h),
                      "auth_backend", Str(a)), drop)) :
        c \in CachixDocs, g \in GiteaDocs, h \in GitHubDocs,
        a \in {"github", "gitlab"}, drop \in DropSets}

(* The documents the running service is (re)loaded from.                   *)
LifecycleDocs ==
    {Obj(With(BaseDoc, "cachix", c)) : c \in CachixDocs}
    \cup {Obj(With(BaseDoc, "gitea", g)) : g \in GiteaDocs}
    \cup {Obj(With(BaseDoc, "github", GitHubDoc(a, o))) :
             a \in {LegacyDoc, AppDoc}, o \in {Null, Str(TokPath)}}
    \cup {Obj(With(With(With(With(BaseDoc, "cachix", CachixDoc(Null, Str(TokPath))),
                            "gitea", GiteaDoc(Str(TokPath))),
                       "github", GitHubDoc(LegacyDoc, Null)),
                  "post_build_steps", List(<<ExampleStepDoc>>)))}
    \cup {Obj(Without(BaseDoc, OptionalBlocks)),
          Obj(With(BaseDoc, "auth_backend", Str("gitlab")))}

---------------------------------------------------------------------------
(* Operations.                                                             *)

NoOp == [op |-> "none", outcome |-> "ok", value |-> None, nreads |-> 0]

Loaded == cfg.t = "BuildbotNixConfig"

(* Mutant: the constructor resolves nix_workers_secret while it validates. *)
LoadEager(d) ==
    LET errs == BuildbotNixConfigErrors(d)
    IN  /\ doc' = d
        /\ cfg' = IF errs = {} THEN BuildbotNixConfigValue(d) ELSE cfg
        /\ last' = [op |-> "model_validate",
                    outcome |-> IF errs = {} THEN "ok" ELSE "ValidationError",
                    value |-> None, errs |-> errs, nreads |-> 1]
        /\ reads' = IF reads < MaxReads THEN reads + 1 ELSE reads
        /\ UNCHANGED <<files, accesses, unionTieBreak>>

(* BuildbotNixConfig.model_validate(d): the object, or a ValidationError   *)
(* and no object.  Validation evaluates fields only, never a property.    *)
Load(d) ==
    LET errs == BuildbotNixConfigErrors(d)
    IN  /\ doc' = d
        /\ cfg' = IF errs = {} THEN BuildbotNixConfigValue(d) ELSE cfg
        /\ last' = [op |-> "model_validate",
                    outcome |-> IF errs = {} THEN "ok" ELSE "ValidationError",
                    value |-> None, errs |-> errs, nreads |-> 0]
        /\ UNCHANGED <<files, reads, accesses, unionTieBreak>>

(* A call of a property or method of the loaded configuration: r is what   *)
(* it returned or raised, pre whether its backing reference was set.       *)
Call(op, r, pre) ==
    /\ last' = [op |-> op, outcome |-> r.outcome, value |-> r.value, nreads |-> r.nreads]
    /\ reads' = reads + r.nreads
    /\ accesses' = IF pre THEN accesses + 1 ELSE accesses
    /\ UNCHANGED <<doc, cfg, files, unionTieBreak>>

Reload == \E d \in LifecycleDocs : Load(d)

(* Mutant: a signing_key that finds no reference disables the cachix block. *)
SigningKeyDisabling ==
    /\ Loaded /\ cfg.cachix # None /\ reads < MaxReads
    /\ LET r == CachixConfig_signing_key(cfg.cachix)
       IN  /\ last' = [op |-> "CachixConfig.signing_key", outcome |-> r.outcome,
                       value |-> r.value, nreads |-> r.nreads]
           /\ reads' = reads + r.nreads
           /\ accesses' = IF cfg.cachix.signing_key_file # None
                          THEN accesses + 1 ELSE accesses
           /\ cfg' = IF r.outcome = "InternalError"
                     THEN [cfg EXCEPT !.cachix = None] ELSE cfg
    /\ UNCHANGED <<doc, files, unionTieBreak>>

SigningKey ==
    /\ Loaded /\ cfg.cachix # None /\ reads < MaxReads
    /\ Call("CachixConfig.signing_key", CachixConfig_signing_key(cfg.cachix),
            cfg.cachix.signing_key_file # None)

AuthToken ==
    /\ Loaded /\ cfg.cachix # None /\ reads < MaxReads
    /\ Call("CachixConfig.auth_token", CachixConfig_auth_token(cfg.cachix),
            cfg.cachix.auth_token_file # None)

Environment ==
    /\ Loaded /\ cfg.cachix # None
    /\ Call("CachixConfig.environment", CachixConfig_environment(cfg.cachix), FALSE)

GiteaToken ==
    /\ Loaded /\ cfg.gitea # None /\ reads < MaxReads
    /\ Call("GiteaConfig.token", GiteaConfig_token(cfg.gitea), TRUE)

GiteaWebhookSecret ==
    /\ Loaded /\ cfg.gitea # None /\ reads < MaxReads
    /\ Call("GiteaConfig.webhook_secret", GiteaConfig_webhook_secret(cfg.gitea), TRUE)

GiteaOauthSecret ==
    /\ Loaded /\ cfg.gitea # None /\ reads < MaxReads
    /\ Call("GiteaConfig.oauth_secret", GiteaConfig_oauth_secret(cfg.gitea),
            cfg.gitea.oauth_secret_file # None)

GitHubLegacyToken ==
    /\ Loaded /\ cfg.github # None /\ reads < MaxReads
    /\ cfg.github.auth_type.t = "GitHubLegacyConfig"
    /\ Call("GitHubLegacyConfig.token", GitHubLegacyConfig_token(cfg.github.auth_type),
            TRUE)

GitHubAppSecretKey ==
    /\ Loaded /\ cfg.github # None /\ reads < MaxReads
    /\ cfg.github.auth_type.t = "GitHubAppConfig"
    /\ Call("GitHubAppConfig.secret_key", GitHubAppConfig_secret_key(cfg.github.auth_type),
            TRUE)

GitHubWebhookSecret ==
    /\ Loaded /\ cfg.github # None /\ reads < MaxReads
    /\ Call("GitHubConfig.webhook_secret", GitHubConfig_webhook_secret(cfg.github), TRUE)

GitHubOauthSecret ==
    /\ Loaded /\ cfg.github # None /\ reads < MaxReads
    /\ Call("GitHubConfig.oauth_secret", GitHubConfig_oauth_secret(cfg.github),
            cfg.github.oauth_secret_file # None)

NixWorkersSecret ==
    /\ Loaded /\ reads < MaxReads
    /\ Call("BuildbotNixConfig.nix_workers_secret",
            BuildbotNixConfig_nix_workers_secret(cfg), TRUE)

ToBuildstep ==
    /\ Loaded
    /\ \E i \in DOMAIN cfg.post_build_steps :
          Call("PostBuildStep.to_buildstep", to_buildstep(cfg.post_build_steps[i]), FALSE)

(* The operator of the host rotates or removes a secret file.              *)
WriteFile == \E p \in Paths, c \in Contents :
    /\ files' = [files EXCEPT ![p] = File(c)]
    /\ UNCHANGED <<doc, cfg, reads, accesses, last, unionTieBreak>>

RemoveFile == \E p \in Paths :
    /\ files' = [files EXCEPT ![p] = NoFile]
    /\ UNCHANGED <<doc, cfg, reads, accesses, last, unionTieBreak>>

Init ==
    /\ doc = NoDoc
    /\ cfg = NoConfig
    /\ files = [p \in Paths |-> NoFile]
    /\ reads = 0
    /\ accesses = 0
    /\ last = NoOp
    /\ unionTieBreak \in {"leftmost", "fields_set"}

Next ==
    \/ Reload
    \/ SigningKey
    \/ AuthToken
    \/ Environment
    \/ GiteaToken
    \/ GiteaWebhookSecret
    \/ GiteaOauthSecret
    \/ GitHubLegacyToken
    \/ GitHubAppSecretKey
    \/ GitHubWebhookSecret
    \/ GitHubOauthSecret
    \/ NixWorkersSecret
    \/ ToBuildstep
    \/ WriteFile
    \/ RemoveFile

Spec == Init /\ [][Next]_vars

---------------------------------------------------------------------------
(* Parsing alone: model_validate applied once to each root document.       *)

InitParse ==
    /\ doc \in RootDocs
    /\ cfg = NoConfig
    /\ files = [p \in Paths |-> NoFile]
    /\ reads = 0
    /\ accesses = 0
    /\ last = NoOp
    /\ unionTieBreak \in {"leftmost", "fields_set"}

Validate == last.op = "none" /\ Load(doc)

NextParse == Validate

SpecParse == InitParse /\ [][NextParse]_vars

---------------------------------------------------------------------------
(* A post-build step alone: PostBuildStep.model_validate, to_buildstep and *)
(* the wire form of its Interpolate values.                                *)

InitStep ==
    /\ doc \in StepDocs
    /\ cfg = NoConfig
    /\ files = [p \in Paths |-> NoFile]
    /\ reads = 0
    /\ accesses = 0
    /\ last = NoOp
    /\ unionTieBreak \in {"leftmost", "fields_set"}

ValidateStep ==
    /\ last.op = "none"
    /\ LET errs == PostBuildStepErrors(doc)
       IN  /\ cfg' = IF errs = {} THEN PostBuildStepValue(doc) ELSE cfg
           /\ last' = [op |-> "model_validate",
                       outcome |-> IF errs = {} THEN "ok" ELSE "ValidationError",
                       value |-> None, errs |-> errs, nreads |-> 0]
    /\ UNCHANGED <<doc, files, reads, accesses, unionTieBreak>>

StepToBuildstep ==
    /\ cfg.t = "PostBuildStep"
    /\ Call("PostBuildStep.to_buildstep", to_buildstep(cfg), FALSE)

(* The Interpolate values a step holds, in its command and environment.    *)
Interpolates(step) ==
    {step.command[i] : i \in {j \in DOMAIN step.command :
                                step.command[j].t = "Interpolate"}}
    \cup {step.environment[k] : k \in {j \in DOMAIN step.environment :
                                         step.environment[j].t = "Interpolate"}}

DumpInterpolate ==
    /\ cfg.t = "PostBuildStep"
    /\ \E self \in Interpolates(cfg), by_alias \in BOOLEAN :
          last' = [op |-> "Interpolate.model_dump", outcome |-> "ok",
                   value |-> InterpolateDump(self, by_alias), nreads |-> 0,
                   self |-> self, by_alias |-> by_alias]
    /\ UNCHANGED <<doc, cfg, files, reads, accesses, unionTieBreak>>

(* The dumped form validated again, as an Interpolate and as an element of *)
(* the str | Interpolate union.                                            *)
ReparseInterpolate ==
    /\ last.op = "Interpolate.model_dump"
    /\ last' = [op |-> "Interpolate.model_validate",
                outcome |-> IF InterpolateErrors(last.value) = {}
                            THEN "ok" ELSE "ValidationError",
                value |-> IF InterpolateErrors(last.value) = {}
                          THEN InterpolateValue(last.value) ELSE None,
                union |-> IF StrOrInterpolateErrors(last.value) = {}
                          THEN StrOrInterpolateValue(last.value) ELSE None,
                nreads |-> 0, self |-> last.self, by_alias |-> last.by_alias]
    /\ UNCHANGED <<doc, cfg, files, reads, accesses, unionTieBreak>>

NextStep ==
    \/ ValidateStep
    \/ StepToBuildstep
    \/ DumpInterpolate
    \/ ReparseInterpolate

SpecStep == InitStep /\ [][NextStep]_vars

---------------------------------------------------------------------------
(* Properties.                                                             *)

OptionalSecretOps == {"CachixConfig.signing_key", "CachixConfig.auth_token",
                      "GiteaConfig.oauth_secret", "GitHubConfig.oauth_secret"}

SecretOps == OptionalSecretOps \cup
    {"GiteaConfig.token", "GiteaConfig.webhook_secret", "GitHubLegacyConfig.token",
     "GitHubAppConfig.secret_key", "GitHubConfig.webhook_secret",
     "BuildbotNixConfig.nix_workers_secret"}

CallOps == SecretOps \cup {"CachixConfig.environment", "PostBuildStep.to_buildstep"}

(* The file reference behind a secret accessor of the loaded configuration. *)
SecretRef(op) ==
    CASE op = "CachixConfig.signing_key" -> cfg.cachix.signing_key_file
      [] op = "CachixConfig.auth_token" -> cfg.cachix.auth_token_file
      [] op = "GiteaConfig.token" -> cfg.gitea.token_file
      [] op = "GiteaConfig.webhook_secret" -> cfg.gitea.webhook_secret_file
      [] op = "GiteaConfig.oauth_secret" -> cfg.gitea.oauth_secret_file
      [] op = "GitHubLegacyConfig.token" -> cfg.github.auth_type.token_file
      [] op = "GitHubAppConfig.secret_key" -> cfg.github.auth_type.secret_key_file
      [] op = "GitHubConfig.webhook_secret" -> cfg.github.webhook_secret_file
      [] op = "GitHubConfig.oauth_secret" -> cfg.github.oauth_secret_file
      [] op = "BuildbotNixConfig.nix_workers_secret" -> cfg.nix_workers_secret_file

(* The file at a path as it is on disk now.                                *)
OnDisk(path) == IF path.v \in DOMAIN files THEN files[path.v] ELSE NoFile

(* C1: an optional secret accessor (signing_key, auth_token, oauth_secret   *)
(* of Gitea and of GitHub) called while its file reference is None raises  *)
(* InternalError: it returns no string and reads no file, whatever was     *)
(* called before.                                                          *)
C1_UnsetRefRaises ==
    (last.op \in OptionalSecretOps /\ SecretRef(last.op) = None)
        => /\ last.outcome = "InternalError"
           /\ last.value = None
           /\ last.nreads = 0

C1_Witness ==
    /\ last.op = "GitHubConfig.oauth_secret"
    /\ cfg.github.oauth_secret_file = None
    /\ last.outcome = "InternalError"
    /\ reads > 0

(* C2 (as claimed): the env of the step to_buildstep builds has the keys of *)
(* self.environment and binds each key k to the translation of the value   *)
(* self.environment[k]: the string itself, or util.Interpolate of the      *)
(* Interpolate's value.                                                    *)
C2_EnvFromValues ==
    (last.op = "PostBuildStep.to_buildstep" /\ cfg.t = "PostBuildStep")
        => /\ DOMAIN last.value.env = DOMAIN cfg.environment
           /\ \A k \in DOMAIN cfg.environment :
                 IF cfg.environment[k].t = "str"
                 THEN last.value.env[k] = cfg.environment[k]
                 ELSE last.value.env[k] = UtilInterpolate(cfg.environment[k].value)

(* C3: the command of the step to_buildstep builds has the length and order *)
(* of self.command, a string carried over unchanged and an Interpolate as  *)
(* util.Interpolate of its value; the step's name is self.name.            *)
C3_CommandTranslated ==
    (last.op = "PostBuildStep.to_buildstep" /\ cfg.t = "PostBuildStep")
        => /\ last.value.name = cfg.name
           /\ DOMAIN last.value.command = 1..Len(cfg.command)
           /\ \A i \in 1..Len(cfg.command) :
                 IF cfg.command[i].t = "str"
                 THEN last.value.command[i] = cfg.command[i]
                 ELSE /\ last.value.command[i].t = "util.Interpolate"
                      /\ last.value.command[i].fmtstring = cfg.command[i].value

C3_Witness ==
    /\ last.op = "PostBuildStep.to_buildstep"
    /\ cfg.t = "PostBuildStep"
    /\ Len(cfg.command) = 2
    /\ last.value.command[1] = Str("echo")
    /\ last.value.command[2] = UtilInterpolate(Str("prop:revision"))

(* C4 (as claimed): with signing_key_file None and auth_token_file set,     *)
(* environment raises InternalError or returns a mapping with only the     *)
(* CACHIX_AUTH_TOKEN handle, a Secret of the file reference, and reads no  *)
(* file.                                                                   *)
C4_EnvironmentOmitsUnset ==
    (/\ last.op = "CachixConfig.environment"
     /\ cfg.cachix.signing_key_file = None
     /\ cfg.cachix.auth_token_file # None)
        => /\ last.nreads = 0
           /\ \/ last.outcome = "InternalError"
              \/ /\ DOMAIN last.value = {"CACHIX_AUTH_TOKEN"}
                 /\ last.value["CACHIX_AUTH_TOKEN"] = Secret(cfg.cachix.auth_token_file)

(* The shapes of an auth_type input.                                       *)
LegacyShape(a) == a.t = "obj" /\ "token_file" \in DOMAIN a.v
AppShape(a) == a.t = "obj" /\ {"id", "secret_key_file"} \subseteq DOMAIN a.v

(* The document validated gives github an object with an auth_type.        *)
HasAuthType ==
    /\ last.op = "model_validate"
    /\ "github" \in DOMAIN doc.v
    /\ doc.v.github.t = "obj"
    /\ "auth_type" \in DOMAIN doc.v.github.v

AuthTypeDoc == doc.v.github.v.auth_type

(* The validation errors located in github.auth_type.                      *)
AuthTypeErrs ==
    {e \in last.errs : Len(e) >= 2 /\ e[1] = "github" /\ e[2] = "auth_type"}

(* C5 (as claimed): an auth_type input of both shapes fails validation.    *)
C5_BothShapesFail ==
    (HasAuthType /\ LegacyShape(AuthTypeDoc) /\ AppShape(AuthTypeDoc))
        => AuthTypeErrs # {}

(* C5 (amended): an auth_type input of the legacy shape only resolves to    *)
(* GitHubLegacyConfig, of the app shape only to GitHubAppConfig; of neither *)
(* shape it fails validation; of both shapes it does not fail but resolves *)
(* to the member the library's tie-break picks: GitHubLegacyConfig (the    *)
(* leftmost) or GitHubAppConfig (the one with more fields set).            *)
C5_StructuralResolution ==
    HasAuthType =>
        LET legacy == LegacyShape(AuthTypeDoc)
            app == AppShape(AuthTypeDoc)
            resolved == IF legacy /\ ~app THEN "GitHubLegacyConfig"
                        ELSE IF app /\ ~legacy THEN "GitHubAppConfig"
                        ELSE IF unionTieBreak = "leftmost" THEN "GitHubLegacyConfig"
                        ELSE "GitHubAppConfig"
        IN  IF legacy \/ app
            THEN /\ AuthTypeErrs = {}
                 /\ last.outcome = "ok" => cfg.github.auth_type.t = resolved
            ELSE /\ AuthTypeErrs # {}
                 /\ last.outcome = "ValidationError"

C5_Witness ==
    /\ HasAuthType
    /\ LegacyShape(AuthTypeDoc) /\ AppShape(AuthTypeDoc)
    /\ last.outcome = "ok"
    /\ cfg.github.auth_type.t = "GitHubAppConfig"

(* C6: validation reads no secret file: the number of read_secret_file     *)
(* calls always equals the number of secret accessor calls whose file      *)
(* reference was set, however many documents were validated, successfully  *)
(* or not, in between.                                                     *)
C6_ReadsOnlyOnAccess ==
    /\ reads = accesses
    /\ last.op = "model_validate" => last.nreads = 0

C6_Witness ==
    /\ last.op = "model_validate"
    /\ last.outcome = "ValidationError"
    /\ Loaded
    /\ reads > 0

(* C7: every secret accessor call that gets past the None test reads the   *)
(* file once, as the file is at that moment: it returns the (trimmed)      *)
(* content the file has now, or raises the I/O error of a file that is not *)
(* there now; no earlier value and no earlier failure is reused.           *)
C7_FreshRead ==
    [][accesses' = accesses + 1
         => /\ last'.op \in SecretOps
            /\ reads' = reads + 1
            /\ last'.nreads = 1
            /\ IF OnDisk(SecretRef(last'.op)).exists
               THEN /\ last'.outcome = "ok"
                    /\ last'.value = Str(Strip(OnDisk(SecretRef(last'.op)).content))
               ELSE /\ last'.outcome = "OSError"
                    /\ last'.value = None]_vars

C7_Witness ==
    /\ last.op = "GiteaConfig.token"
    /\ last.outcome = "ok"
    /\ last.value = Str(<<"b">>)
    /\ reads >= 2

(* C8 (as claimed): a root document that omits cachix, gitea and github and *)
(* is otherwise valid validates, with cachix, gitea and github None.       *)
C8_OmittedBlocksParse ==
    (/\ last.op = "model_validate"
     /\ DOMAIN doc.v = DOMAIN BaseDoc \ OptionalBlocks
     /\ doc.v.auth_backend.v \in AuthBackendConfig)
        => /\ last.outcome = "ok"
           /\ Loaded
           /\ cfg.cachix = None /\ cfg.gitea = None /\ cfg.github = None

(* C9: model_dump of an Interpolate emits the discriminator under "_type"  *)
(* with by_alias and under "nix_type" without, next to "value"; the        *)
(* by-alias dump validates, as an Interpolate and as an element of         *)
(* str | Interpolate, to a value equal to the one dumped.                  *)
C9_InterpolateRoundTrip ==
    /\ last.op = "Interpolate.model_dump"
          => /\ DOMAIN last.value.v =
                   {IF last.by_alias THEN "_type" ELSE "nix_type", "value"}
             /\ last.value.v["value"] = last.self.value
             /\ last.value.v[IF last.by_alias THEN "_type" ELSE "nix_type"]
                   = last.self.nix_type
    /\ (last.op = "Interpolate.model_validate" /\ last.by_alias)
          => /\ last.outcome = "ok"
             /\ last.value = last.self
             /\ last.union = last.self

C9_Witness ==
    /\ last.op = "Interpolate.model_validate"
    /\ last.by_alias
    /\ last.value = [t |-> "Interpolate", nix_type |-> Str("Interpolate"),
                     value |-> Str("prop:branch")]

(* C10: a call of a secret accessor, of environment or of to_buildstep,    *)
(* whether it returns or raises, changes neither the loaded configuration  *)
(* nor the secret files.                                                   *)
C10_CallsLeaveConfig ==
    [][(/\ last'.op \in CallOps
        /\ <<last, reads, accesses>>' # <<last, reads, accesses>>)
         => /\ cfg' = cfg
            /\ files' = files]_vars

C10_Witness ==
    /\ last.op = "CachixConfig.signing_key"
    /\ last.outcome = "InternalError"
    /\ cfg.cachix # None
    /\ reads > 0

=============================================================================
